---- MODULE Spec2Model ----
(***************************************************************************)
(* Copy-on-write trie of src/primer/trie.cpp: Trie::Get, Trie::Put and     *)
(* Trie::Remove over a heap of reference-shared nodes.                     *)
(*                                                                         *)
(* A node is a heap cell addressed by an id (the shared_ptr's target); a   *)
(* Trie is the id of its root node, or Null.  Every method is a small      *)
(* machine over a call frame (the method's locals and its position); one   *)
(* step of the machine makes one node read, allocation or write.  The      *)
(* sequential specification runs a call to completion in one action; the   *)
(* concurrent one interleaves the steps of several calls.                  *)
(***************************************************************************)
EXTENDS Integers, Sequences, FiniteSets, TLC

VARIABLES
    heap,      \* node id -> node: every node allocated so far
    versions,  \* the roots of the Tries constructed so far (Null: the empty trie)
    last,      \* the last completed Put or Remove: receiver, arguments, result,
               \* the nodes allocated before it, and the call before it
    nops,      \* number of completed Put and Remove calls
    forked,    \* TRUE once the threads run on the shared ancestor
    ancestor,  \* the root of the Trie the threads share
    threads,   \* thread -> the frame of its call
    contents   \* root of a Trie made by a sequential call -> the reference map
               \* (key -> value, or NoValue) kept side by side with that Trie

vars == <<heap, versions, last, nops, forked, ancestor, threads, contents>>

(* ------------------------------ bounds -------------------------------- *)
MaxKeyLen == 2
MaxOps == 3
MaxBuild == 2
NumThreads == 2

(* nullptr: the absent root, and the absent result of Get *)
Null == 0

Alphabet == {"a", "b"}
Keys == UNION {[1..n -> Alphabet] : n \in 0..MaxKeyLen}

(* the instantiated value types T, and values of them (type, payload) *)
Types == {"u32", "str"}
Values == {[type |-> "u32", val |-> 1], [type |-> "u32", val |-> 2],
           [type |-> "str", val |-> 1]}

(* ----------------------- nodes (primer/trie.h) ------------------------ *)
NoChildren == [c \in {} |-> Null]

(* TrieNode(children): a node without a value *)
TrieNode(children) ==
    [children_ |-> children, is_value_node_ |-> FALSE, type |-> "none", value_ |-> Null]

(* TrieNodeWithValue<T>(children, value) *)
TrieNodeWithValue(children, v) ==
    [children_ |-> children, is_value_node_ |-> TRUE, type |-> v.type, value_ |-> v.val]

(* Clone(): a new node with the same children map and the same value *)
Clone(node) ==
    [children_ |-> node.children_, is_value_node_ |-> node.is_value_node_,
     type |-> node.type, value_ |-> node.value_]

(* children_[ch] = n *)
SetChild(children, ch, n) ==
    [c \in DOMAIN children \cup {ch} |-> IF c = ch THEN n ELSE children[c]]

(* children_.erase(ch) *)
EraseChild(children, ch) ==
    [c \in DOMAIN children \ {ch} |-> children[c]]

(* ------------------------------- heap --------------------------------- *)
(* Each call allocates from its own arena: ids above the frame's base.    *)
ArenaSize == (MaxOps + MaxBuild + 1) * (MaxKeyLen + 1)

NewId(h, f) ==
    CHOOSE id \in (f.arena + 1)..(f.arena + ArenaSize) :
        /\ id \notin DOMAIN h
        /\ \A j \in (f.arena + 1)..(id - 1) : j \in DOMAIN h

(* make_shared<...>(...): a new cell holding node *)
Alloc(h, id, node) == [n \in DOMAIN h \cup {id} |-> IF n = id THEN node ELSE h[n]]

(* a write through a pointer to a node: p->children_ = children *)
WriteChildren(h, p, children) == [h EXCEPT ![p].children_ = children]

(* ------------------------------ frames -------------------------------- *)
Frame(op, root, key, v, arena) ==
    [op |-> op, root_ |-> root, key |-> key, v |-> v, arena |-> arena,
     pc |-> op, cur |-> Null, curr |-> Null, nodes |-> <<>>, it |-> 1, i |-> 0,
     index |-> 0, new_root |-> Null, parent |-> Null, new_node |-> Null,
     result |-> Null]

Return(c, res) == [c EXCEPT !.f.pc = "done", !.f.result = res]

(* ------------------------------ Trie::Get ----------------------------- *)
(* lines 15-18 *)
GetStart(c) ==
    LET f == c.f IN
    IF f.root_ = Null THEN Return(c, Null)
    ELSE [c EXCEPT !.f.cur = f.root_, !.f.pc = "get_walk"]

(* GetWalk that leaves the loop at a missing child and goes on to the value test *)
GetWalk_BreaksAtMissing(c) ==
    LET f == c.f
        children == c.h[f.cur].children_
    IN  IF f.it > Len(f.key) THEN [c EXCEPT !.f.pc = "get_check"]
        ELSE IF f.key[f.it] \in DOMAIN children
             THEN [c EXCEPT !.f.cur = children[f.key[f.it]], !.f.it = f.it + 1]
             ELSE [c EXCEPT !.f.pc = "get_check"]

(* lines 19-26: one iteration of the walk *)
GetWalk(c) ==
    LET f == c.f
        children == c.h[f.cur].children_
    IN  IF f.it > Len(f.key) THEN [c EXCEPT !.f.pc = "get_check"]
        ELSE IF f.key[f.it] \in DOMAIN children
             THEN [c EXCEPT !.f.cur = children[f.key[f.it]], !.f.it = f.it + 1]
             ELSE Return(c, Null)

(* GetCheck with a static cast: the stored type is not tested *)
GetCheck_StaticCast(c) ==
    LET f == c.f
        node == c.h[f.cur]
    IN  IF node.is_value_node_ THEN Return(c, node.value_) ELSE Return(c, Null)

(* lines 27-34: the value test and the dynamic cast to TrieNodeWithValue<T> *)
GetCheck(c) ==
    LET f == c.f
        node == c.h[f.cur]
    IN  IF node.is_value_node_
        THEN IF node.type # f.v.type THEN Return(c, Null)
             ELSE Return(c, node.value_)
        ELSE Return(c, Null)

(* ------------------------------ Trie::Put ----------------------------- *)
(* PutStart whose empty-key root is built without the old root's children *)
PutStart_DropChildren(c) ==
    LET f == c.f
        id == NewId(c.h, f)
    IN  IF Len(f.key) = 0
        THEN Return([c EXCEPT !.h = Alloc(c.h, id,
                         TrieNodeWithValue(NoChildren, f.v))], id)
        ELSE IF f.root_ = Null
             THEN [c EXCEPT !.h = Alloc(c.h, id, TrieNode(NoChildren)),
                            !.f.new_root = id, !.f.curr = id, !.f.i = 0,
                            !.f.pc = "put_fresh"]
             ELSE [c EXCEPT !.f.cur = f.root_, !.f.it = 1, !.f.pc = "put_walk"]

(* lines 43-58 and 74-76: the empty key, the empty trie, or start the walk *)
PutStart(c) ==
    LET f == c.f
        id == NewId(c.h, f)
    IN  IF Len(f.key) = 0
        THEN IF f.root_ # Null
             THEN Return([c EXCEPT !.h = Alloc(c.h, id,
                              TrieNodeWithValue(c.h[f.root_].children_, f.v))], id)
             ELSE Return([c EXCEPT !.h = Alloc(c.h, id,
                              TrieNodeWithValue(NoChildren, f.v))], id)
        ELSE IF f.root_ = Null
             THEN [c EXCEPT !.h = Alloc(c.h, id, TrieNode(NoChildren)),
                            !.f.new_root = id, !.f.curr = id, !.f.i = 0,
                            !.f.pc = "put_fresh"]
             ELSE [c EXCEPT !.f.cur = f.root_, !.f.it = 1, !.f.pc = "put_walk"]

(* lines 59-66: the empty trie, allocate the child for key[i] *)
PutFresh(c) ==
    LET f == c.f
        id == NewId(c.h, f)
    IN  IF f.i >= Len(f.key) THEN Return(c, f.new_root)
        ELSE IF f.i # Len(f.key) - 1
             THEN [c EXCEPT !.h = Alloc(c.h, id, TrieNode(NoChildren)),
                            !.f.new_node = id, !.f.pc = "put_fresh_link"]
             ELSE [c EXCEPT !.h = Alloc(c.h, id, TrieNodeWithValue(NoChildren, f.v)),
                            !.f.new_node = id, !.f.pc = "put_fresh_link"]

(* lines 67-69: curr->children_ = {}; curr->children_[ch] = child; curr = child *)
PutFreshLink(c) ==
    LET f == c.f
        ch == f.key[f.i + 1]
    IN  [c EXCEPT !.h = WriteChildren(c.h, f.curr, SetChild(NoChildren, ch, f.new_node)),
                  !.f.curr = f.new_node, !.f.i = f.i + 1, !.f.pc = "put_fresh"]

(* lines 77-85: one iteration of the walk that collects the existing path *)
PutWalk(c) ==
    LET f == c.f
        children == c.h[f.cur].children_
    IN  IF f.it > Len(f.key) THEN [c EXCEPT !.f.pc = "put_clone_root"]
        ELSE IF f.key[f.it] \notin DOMAIN children
             THEN [c EXCEPT !.f.pc = "put_clone_root"]
             ELSE [c EXCEPT !.f.cur = children[f.key[f.it]],
                            !.f.nodes = Append(f.nodes, children[f.key[f.it]]),
                            !.f.it = f.it + 1]

(* PutCloneRoot that copies the root as a plain TrieNode, without its value *)
PutCloneRoot_DropsValue(c) ==
    LET f == c.f
        id == NewId(c.h, f)
    IN  [c EXCEPT !.h = Alloc(c.h, id, TrieNode(c.h[f.root_].children_)),
                  !.f.new_root = id, !.f.parent = id, !.f.i = 0, !.f.index = 0,
                  !.f.pc = IF f.it > Len(f.key) THEN "put_exist" ELSE "put_prefix"]

(* PutCloneRoot that takes the old root itself as the new root, without a copy *)
PutCloneRoot_InPlace(c) ==
    LET f == c.f
    IN  [c EXCEPT !.f.new_root = f.root_, !.f.parent = f.root_, !.f.i = 0, !.f.index = 0,
                  !.f.pc = IF f.it > Len(f.key) THEN "put_exist" ELSE "put_prefix"]

(* PutCloneRoot that copies the children of the root along with the root *)
RECURSIVE CopyChildren(_, _, _, _)
CopyChildren(h, f, p, chars) ==
    IF chars = {} THEN h
    ELSE LET ch == CHOOSE x \in chars : TRUE
             id == NewId(h, f)
             h1 == Alloc(h, id, Clone(h[h[p].children_[ch]]))
         IN  CopyChildren(WriteChildren(h1, p, SetChild(h1[p].children_, ch, id)),
                          f, p, chars \ {ch})

PutCloneRoot_CopiesChildren(c) ==
    LET f == c.f
        id == NewId(c.h, f)
        h1 == Alloc(c.h, id, Clone(c.h[f.root_]))
    IN  [c EXCEPT !.h = CopyChildren(h1, f, id, DOMAIN h1[id].children_),
                  !.f.new_root = id, !.f.parent = id, !.f.i = 0, !.f.index = 0,
                  !.f.pc = IF f.it > Len(f.key) THEN "put_exist" ELSE "put_prefix"]

(* lines 87-91 and 106: clone the root, then choose the loop *)
PutCloneRoot(c) ==
    LET f == c.f
        id == NewId(c.h, f)
    IN  [c EXCEPT !.h = Alloc(c.h, id, Clone(c.h[f.root_])),
                  !.f.new_root = id, !.f.parent = id, !.f.i = 0, !.f.index = 0,
                  !.f.pc = IF f.it > Len(f.key) THEN "put_exist" ELSE "put_prefix"]

(* PutExist whose value node for the last byte starts without children *)
PutExist_DropsChildren(c) ==
    LET f == c.f
        id == NewId(c.h, f)
    IN  IF f.i >= Len(f.key) THEN Return(c, f.new_root)
        ELSE IF f.i # Len(f.key) - 1
             THEN [c EXCEPT !.h = Alloc(c.h, id, Clone(c.h[f.nodes[f.i + 1]])),
                            !.f.new_node = id, !.f.pc = "put_exist_link"]
             ELSE [c EXCEPT !.h = Alloc(c.h, id, TrieNodeWithValue(NoChildren, f.v)),
                            !.f.new_node = id, !.f.pc = "put_exist_link"]

(* PutExist that clones the last node too, instead of building the value node *)
PutExist_CloneLast(c) ==
    LET f == c.f
        id == NewId(c.h, f)
    IN  IF f.i >= Len(f.key) THEN Return(c, f.new_root)
        ELSE [c EXCEPT !.h = Alloc(c.h, id, Clone(c.h[f.nodes[f.i + 1]])),
                       !.f.new_node = id, !.f.pc = "put_exist_link"]

(* lines 92-99: the whole path exists, copy nodes[i] *)
PutExist(c) ==
    LET f == c.f
        id == NewId(c.h, f)
    IN  IF f.i >= Len(f.key) THEN Return(c, f.new_root)
        ELSE IF f.i # Len(f.key) - 1
             THEN [c EXCEPT !.h = Alloc(c.h, id, Clone(c.h[f.nodes[f.i + 1]])),
                            !.f.new_node = id, !.f.pc = "put_exist_link"]
             ELSE [c EXCEPT !.h = Alloc(c.h, id,
                                TrieNodeWithValue(c.h[f.nodes[f.i + 1]].children_, f.v)),
                            !.f.new_node = id, !.f.pc = "put_exist_link"]

(* PutExistLink that links new_root where new_node is meant *)
PutExistLink_LinksRoot(c) ==
    LET f == c.f
        ch == f.key[f.i + 1]
    IN  [c EXCEPT !.h = WriteChildren(c.h, f.parent,
                            SetChild(c.h[f.parent].children_, ch, f.new_root)),
                  !.f.parent = f.new_node, !.f.i = f.i + 1, !.f.pc = "put_exist"]

(* PutExistLink that goes on from the old node nodes[i], not from its copy *)
PutExistLink_ParentIsOriginal(c) ==
    LET f == c.f
        ch == f.key[f.i + 1]
    IN  [c EXCEPT !.h = WriteChildren(c.h, f.parent,
                            SetChild(c.h[f.parent].children_, ch, f.new_node)),
                  !.f.parent = f.nodes[f.i + 1], !.f.i = f.i + 1, !.f.pc = "put_exist"]

(* lines 100-101: parent->children_[ch] = new_node; parent = new_node *)
PutExistLink(c) ==
    LET f == c.f
        ch == f.key[f.i + 1]
    IN  [c EXCEPT !.h = WriteChildren(c.h, f.parent,
                            SetChild(c.h[f.parent].children_, ch, f.new_node)),
                  !.f.parent = f.new_node, !.f.i = f.i + 1, !.f.pc = "put_exist"]

(* lines 107-109: the path ends early, copy the existing prefix nodes[i] *)
PutPrefix(c) ==
    LET f == c.f
        id == NewId(c.h, f)
    IN  IF f.i >= Len(f.nodes) THEN [c EXCEPT !.f.pc = "put_suffix"]
        ELSE [c EXCEPT !.h = Alloc(c.h, id, Clone(c.h[f.nodes[f.i + 1]])),
                       !.f.new_node = id, !.f.pc = "put_prefix_link"]

(* lines 110-112 *)
PutPrefixLink(c) ==
    LET f == c.f
        ch == f.key[f.i + 1]
    IN  [c EXCEPT !.h = WriteChildren(c.h, f.parent,
                            SetChild(c.h[f.parent].children_, ch, f.new_node)),
                  !.f.parent = f.new_node, !.f.i = f.i + 1, !.f.index = f.index + 1,
                  !.f.pc = "put_prefix"]

(* lines 114-116: fresh plain nodes for the rest of the key but its last byte *)
PutSuffix(c) ==
    LET f == c.f
        id == NewId(c.h, f)
    IN  IF f.index < Len(f.key) - 1
        THEN [c EXCEPT !.h = Alloc(c.h, id, TrieNode(NoChildren)),
                       !.f.new_node = id, !.f.pc = "put_suffix_link"]
        ELSE [c EXCEPT !.f.pc = "put_last"]

(* lines 117-119 *)
PutSuffixLink(c) ==
    LET f == c.f
        ch == f.key[f.index + 1]
    IN  [c EXCEPT !.h = WriteChildren(c.h, f.parent,
                            SetChild(c.h[f.parent].children_, ch, f.new_node)),
                  !.f.parent = f.new_node, !.f.index = f.index + 1,
                  !.f.pc = "put_suffix"]

(* lines 121-122: the value node of the last byte *)
PutLast(c) ==
    LET f == c.f
        id == NewId(c.h, f)
        h1 == Alloc(c.h, id, TrieNodeWithValue(NoChildren, f.v))
    IN  Return([c EXCEPT !.h = WriteChildren(h1, f.parent,
                            SetChild(h1[f.parent].children_, f.key[Len(f.key)], id))],
               f.new_root)

(* ---------------------------- Trie::Remove ---------------------------- *)
(* lines 129-133 *)
RemoveStart(c) ==
    LET f == c.f IN
    IF f.root_ = Null THEN Return(c, Null)
    ELSE [c EXCEPT !.f.cur = f.root_, !.f.it = 1, !.f.pc = "rm_walk"]

(* RemoveWalk that returns the empty Trie when a byte has no child *)
RemoveWalk_ReturnsEmpty(c) ==
    LET f == c.f
        children == c.h[f.cur].children_
    IN  IF f.it > Len(f.key) THEN [c EXCEPT !.f.pc = "rm_check"]
        ELSE IF f.key[f.it] \notin DOMAIN children
             THEN Return(c, Null)
             ELSE [c EXCEPT !.f.nodes = Append(f.nodes, f.cur),
                            !.f.cur = children[f.key[f.it]],
                            !.f.it = f.it + 1]

(* lines 134-141: one iteration of the walk *)
RemoveWalk(c) ==
    LET f == c.f
        children == c.h[f.cur].children_
    IN  IF f.it > Len(f.key) THEN [c EXCEPT !.f.pc = "rm_check"]
        ELSE IF f.key[f.it] \notin DOMAIN children
             THEN Return(c, f.root_)
             ELSE [c EXCEPT !.f.nodes = Append(f.nodes, f.cur),
                            !.f.cur = children[f.key[f.it]],
                            !.f.it = f.it + 1]

(* RemoveCheck without the value test: the path is rebuilt in any case *)
RemoveCheck_NoValueTest(c) ==
    LET f == c.f
        id == NewId(c.h, f)
    IN  [c EXCEPT !.h = Alloc(c.h, id, TrieNode(c.h[f.cur].children_)),
                  !.f.cur = id, !.f.i = Len(f.nodes) - 1, !.f.pc = "rm_fold"]

(* RemoveCheck whose stripped node loses the children of the node it replaces *)
RemoveCheck_DropChildren(c) ==
    LET f == c.f
        id == NewId(c.h, f)
    IN  IF ~c.h[f.cur].is_value_node_ THEN Return(c, f.root_)
        ELSE [c EXCEPT !.h = Alloc(c.h, id, TrieNode(NoChildren)),
                       !.f.cur = id, !.f.i = Len(f.nodes) - 1, !.f.pc = "rm_fold"]

(* lines 142-147: no value to remove, or the stripped copy of the last node *)
RemoveCheck(c) ==
    LET f == c.f
        id == NewId(c.h, f)
    IN  IF ~c.h[f.cur].is_value_node_ THEN Return(c, f.root_)
        ELSE [c EXCEPT !.h = Alloc(c.h, id, TrieNode(c.h[f.cur].children_)),
                       !.f.cur = id, !.f.i = Len(f.nodes) - 1, !.f.pc = "rm_fold"]

(* RemoveFold that takes the parent itself for its copy, without Clone *)
RemoveFold_NoClone(c) ==
    LET f == c.f
    IN  IF f.i < 0 THEN [c EXCEPT !.f.pc = "rm_final"]
        ELSE [c EXCEPT !.f.new_node = f.nodes[f.i + 1], !.f.pc = "rm_fold_link"]

(* lines 147-149: copy the parent nodes[i] *)
RemoveFold(c) ==
    LET f == c.f
        id == NewId(c.h, f)
    IN  IF f.i < 0 THEN [c EXCEPT !.f.pc = "rm_final"]
        ELSE [c EXCEPT !.h = Alloc(c.h, id, Clone(c.h[f.nodes[f.i + 1]])),
                       !.f.new_node = id, !.f.pc = "rm_fold_link"]

(* RemoveFoldLink that prunes the stripped node only, not the copies above it *)
RemoveFoldLink_PrunesOnlyLeaf(c) ==
    LET f == c.f
        ch == f.key[f.i + 1]
        new_parent == f.new_node
        node == c.h[f.cur]
    IN  IF f.i = Len(f.nodes) - 1 /\ DOMAIN node.children_ = {} /\ ~node.is_value_node_
        THEN [c EXCEPT !.h = WriteChildren(c.h, new_parent,
                                 EraseChild(c.h[new_parent].children_, ch)),
                       !.f.cur = new_parent, !.f.i = f.i - 1, !.f.pc = "rm_fold"]
        ELSE [c EXCEPT !.h = WriteChildren(c.h, new_parent,
                                 SetChild(c.h[new_parent].children_, ch, f.cur)),
                       !.f.cur = new_parent, !.f.i = f.i - 1, !.f.pc = "rm_fold"]

(* RemoveFoldLink that takes a childless node for dead, value or not *)
RemoveFoldLink_NoValueTest(c) ==
    LET f == c.f
        ch == f.key[f.i + 1]
        new_parent == f.new_node
        node == c.h[f.cur]
    IN  IF DOMAIN node.children_ = {}
        THEN [c EXCEPT !.h = WriteChildren(c.h, new_parent,
                                 EraseChild(c.h[new_parent].children_, ch)),
                       !.f.cur = new_parent, !.f.i = f.i - 1, !.f.pc = "rm_fold"]
        ELSE [c EXCEPT !.h = WriteChildren(c.h, new_parent,
                                 SetChild(c.h[new_parent].children_, ch, f.cur)),
                       !.f.cur = new_parent, !.f.i = f.i - 1, !.f.pc = "rm_fold"]

(* RemoveFoldLink that never prunes: the copy is linked even when it is dead *)
RemoveFoldLink_AlwaysLink(c) ==
    LET f == c.f
        ch == f.key[f.i + 1]
        new_parent == f.new_node
    IN  [c EXCEPT !.h = WriteChildren(c.h, new_parent,
                            SetChild(c.h[new_parent].children_, ch, f.cur)),
                  !.f.cur = new_parent, !.f.i = f.i - 1, !.f.pc = "rm_fold"]

(* lines 150-155: drop the edge to a dead child, or link the copy *)
RemoveFoldLink(c) ==
    LET f == c.f
        ch == f.key[f.i + 1]
        new_parent == f.new_node
        node == c.h[f.cur]
    IN  IF DOMAIN node.children_ = {} /\ ~node.is_value_node_
        THEN [c EXCEPT !.h = WriteChildren(c.h, new_parent,
                                 EraseChild(c.h[new_parent].children_, ch)),
                       !.f.cur = new_parent, !.f.i = f.i - 1, !.f.pc = "rm_fold"]
        ELSE [c EXCEPT !.h = WriteChildren(c.h, new_parent,
                                 SetChild(c.h[new_parent].children_, ch, f.cur)),
                       !.f.cur = new_parent, !.f.i = f.i - 1, !.f.pc = "rm_fold"]

(* RemoveFinal that returns the rebuilt root even when it is dead *)
RemoveFinal_KeepsRoot(c) == Return(c, c.f.cur)

(* lines 157-160 *)
RemoveFinal(c) ==
    LET f == c.f
        node == c.h[f.cur]
    IN  IF DOMAIN node.children_ = {} /\ ~node.is_value_node_
        THEN Return(c, Null)
        ELSE Return(c, f.cur)

(* ------------------------- running a call ----------------------------- *)
(* one step of the call whose frame is c.f, on the heap c.h *)
Step(c) ==
    CASE c.f.pc = "Get" -> GetStart(c)
      [] c.f.pc = "get_walk" -> GetWalk(c)
      [] c.f.pc = "get_check" -> GetCheck(c)
      [] c.f.pc = "Put" -> PutStart(c)
      [] c.f.pc = "put_fresh" -> PutFresh(c)
      [] c.f.pc = "put_fresh_link" -> PutFreshLink(c)
      [] c.f.pc = "put_walk" -> PutWalk(c)
      [] c.f.pc = "put_clone_root" -> PutCloneRoot(c)
      [] c.f.pc = "put_exist" -> PutExist(c)
      [] c.f.pc = "put_exist_link" -> PutExistLink(c)
      [] c.f.pc = "put_prefix" -> PutPrefix(c)
      [] c.f.pc = "put_prefix_link" -> PutPrefixLink(c)
      [] c.f.pc = "put_suffix" -> PutSuffix(c)
      [] c.f.pc = "put_suffix_link" -> PutSuffixLink(c)
      [] c.f.pc = "put_last" -> PutLast(c)
      [] c.f.pc = "Remove" -> RemoveStart(c)
      [] c.f.pc = "rm_walk" -> RemoveWalk(c)
      [] c.f.pc = "rm_check" -> RemoveCheck(c)
      [] c.f.pc = "rm_fold" -> RemoveFold(c)
      [] c.f.pc = "rm_fold_link" -> RemoveFoldLink(c)
      [] c.f.pc = "rm_final" -> RemoveFinal(c)

(* a call run alone, from its first step to its return *)
RECURSIVE Run(_)
Run(c) == IF c.f.pc = "done" THEN c ELSE Run(Step(c))

NoValue == [type |-> "none", val |-> Null]

(* t.Get<T>(key): the value found, or Null *)
Get(h, root, key, T) ==
    Run([h |-> h, f |-> Frame("Get", root, key, [type |-> T, val |-> Null], 0)]).f.result

(* t.Put(key, v): the heap after the call and the root of the returned Trie *)
Put(h, root, key, v) ==
    LET c == Run([h |-> h, f |-> Frame("Put", root, key, v, 0)])
    IN  [h |-> c.h, root |-> c.f.result]

(* t.Remove(key) *)
Remove(h, root, key) ==
    LET c == Run([h |-> h, f |-> Frame("Remove", root, key, NoValue, 0)])
    IN  [h |-> c.h, root |-> c.f.result]

(* ----------------------------- the program ---------------------------- *)
Threads == 1..NumThreads

Idle == Frame("idle", Null, <<>>, NoValue, 0)

NoCall == [op |-> "none", root |-> Null, key |-> <<>>, v |-> NoValue, res |-> Null]

Called ==
    [op |-> last.op, root |-> last.root, key |-> last.key, v |-> last.v, res |-> last.res]

(* the reference map: Put sets the entry of the key, Remove deletes it *)
EmptyMap == [k \in Keys |-> NoValue]
MapPut(m, key, v) == [m EXCEPT ![key] = v]
MapRemove(m, key) == [m EXCEPT ![key] = NoValue]

(* the reference map m goes with the Trie of this root *)
Record(root, m) ==
    [t \in DOMAIN contents \cup {root} |-> IF t = root THEN m ELSE contents[t]]

Init ==
    /\ heap = [n \in {} |-> TrieNode(NoChildren)]
    /\ versions = {Null}
    /\ last = [op |-> "none", root |-> Null, key |-> <<>>, v |-> NoValue,
               res |-> Null, pre |-> {}, prev |-> NoCall]
    /\ nops = 0
    /\ forked = FALSE
    /\ ancestor = Null
    /\ threads = [t \in Threads |-> Idle]
    /\ contents = [t \in {Null} |-> EmptyMap]

(* t2 = t.Put(key, v) *)
DoPut(t, key, v) ==
    /\ ~forked
    /\ LET r == Put(heap, t, key, v)
       IN  /\ heap' = r.h
           /\ versions' = versions \cup {r.root}
           /\ last' = [op |-> "Put", root |-> t, key |-> key, v |-> v,
                       res |-> r.root, pre |-> DOMAIN heap, prev |-> Called]
           /\ contents' = Record(r.root, MapPut(contents[t], key, v))
    /\ nops' = nops + 1
    /\ UNCHANGED <<forked, ancestor, threads>>

(* t2 = t.Remove(key) *)
DoRemove(t, key) ==
    /\ ~forked
    /\ LET r == Remove(heap, t, key)
       IN  /\ heap' = r.h
           /\ versions' = versions \cup {r.root}
           /\ last' = [op |-> "Remove", root |-> t, key |-> key, v |-> NoValue,
                       res |-> r.root, pre |-> DOMAIN heap, prev |-> Called]
           /\ contents' = Record(r.root, MapRemove(contents[t], key))
    /\ nops' = nops + 1
    /\ UNCHANGED <<forked, ancestor, threads>>

(* the sequential program: Put and Remove on any Trie constructed so far *)
SeqPut ==
    /\ nops < MaxOps
    /\ \E t \in versions, key \in Keys, v \in Values : DoPut(t, key, v)

SeqRemove ==
    /\ nops < MaxOps
    /\ \E t \in versions, key \in Keys : DoRemove(t, key)

Next == SeqPut \/ SeqRemove

Spec == Init /\ [][Next]_vars

(* ------------------------ the concurrent program ---------------------- *)
(* One thread builds a Trie; then every thread makes one call on it, the   *)
(* calls running step by step in any order, without a lock.                *)

(* the calls a thread may make: Get<T>(key), Put(key, v), Remove(key) *)
ThreadValue == [type |-> "u32", val |-> 2]
BuildValue == [type |-> "u32", val |-> 1]

Calls ==
    {[op |-> "Get", key |-> k, v |-> [type |-> ThreadValue.type, val |-> Null]] : k \in Keys}
    \cup {[op |-> "Put", key |-> k, v |-> ThreadValue] : k \in Keys}
    \cup {[op |-> "Remove", key |-> k, v |-> NoValue] : k \in Keys}

(* the nodes of thread t are allocated above those of the builder *)
Arena(t) == t * ArenaSize

Build ==
    /\ nops < MaxBuild
    /\ \E key \in Keys : DoPut(last.res, key, BuildValue)

(* the Trie built becomes the shared ancestor and every thread enters its call *)
Fork ==
    /\ ~forked
    /\ forked' = TRUE
    /\ ancestor' = last.res
    /\ \E calls \in [Threads -> Calls] :
          threads' = [t \in Threads |->
                        Frame(calls[t].op, last.res, calls[t].key, calls[t].v, Arena(t))]
    /\ UNCHANGED <<heap, versions, last, nops, contents>>

(* one step of the call of thread t *)
ThreadStep(t) ==
    /\ forked
    /\ threads[t].pc # "done"
    /\ LET c == Step([h |-> heap, f |-> threads[t]])
       IN  /\ heap' = c.h
           /\ threads' = [threads EXCEPT ![t] = c.f]
           /\ versions' = IF c.f.pc = "done" /\ c.f.op \in {"Put", "Remove"}
                          THEN versions \cup {c.f.result}
                          ELSE versions
    /\ UNCHANGED <<last, nops, forked, ancestor, contents>>

ConcNext == Build \/ Fork \/ \E t \in Threads : ThreadStep(t)

ConcSpec == Init /\ [][ConcNext]_vars

(* ======================= properties of the program ==================== *)
(* positions: the byte paths of the nodes a Trie over Keys can hold, and   *)
(* one byte more                                                           *)
Paths == UNION {[1..n -> Alphabet] : n \in 0..(MaxKeyLen + 1)}

(* the node at position p below node n (Null: none) *)
RECURSIVE Below(_, _, _)
Below(h, n, p) ==
    IF n = Null THEN Null
    ELSE IF p = <<>> THEN n
    ELSE IF Head(p) \in DOMAIN h[n].children_
         THEN Below(h, h[n].children_[Head(p)], Tail(p))
         ELSE Null

NodeAt(h, root, p) == Below(h, root, p)

(* the nodes of the Trie with this root *)
Reach(h, root) == {NodeAt(h, root, p) : p \in Paths} \ {Null}

IsPrefix(p, k) == Len(p) <= Len(k) /\ \A j \in 1..Len(p) : p[j] = k[j]

(* the key holds a value, of whatever type *)
Holds(h, root, k) == NodeAt(h, root, k) # Null /\ h[NodeAt(h, root, k)].is_value_node_

(* two Tries that no Get tells apart *)
SameGets(h1, r1, h2, r2, ks) ==
    \A k \in ks, T \in Types : Get(h1, r1, k, T) = Get(h2, r2, k, T)

(* C1: after t2 = t.Put(k, v), on any Trie t constructed by Put and Remove   *)
(* from the empty one and any key, the empty key included, t2.Get<T>(k)      *)
(* returns v.                                                                *)
C1_PutThenGet ==
    last.op = "Put" => Get(heap, last.res, last.key, last.v.type) = last.v.val

(* the Put replaced a value of another type stored at the empty key of a    *)
(* Trie that has children                                                    *)
C1_Witness ==
    /\ last.op = "Put" /\ last.key = <<>> /\ last.root # Null
    /\ Holds(heap, last.root, <<>>)
    /\ heap[last.root].type # last.v.type
    /\ DOMAIN heap[last.root].children_ # {}
    /\ Get(heap, last.res, last.key, last.v.type) = last.v.val

(* C2: every Get on every Trie constructed so far returns after a Put or a  *)
(* Remove, on that Trie or on any other, what it returned before it.         *)
C2_OldVersionsUnchanged ==
    [][\A t \in versions, k \in Keys, T \in Types :
          Get(heap', t, k, T) = Get(heap, t, k, T)]_vars

(* the third call was made on a Trie derived from an older one, at a key the *)
(* older ones hold, and changed what that key returns in the new version     *)
C2_Witness ==
    /\ nops = MaxOps /\ last.root # Null /\ last.res # last.root
    /\ Cardinality(versions) = MaxOps + 1
    /\ \A t \in versions \ {Null, last.res} : Holds(heap, t, last.key)
    /\ \E T \in Types : Get(heap, last.res, last.key, T) # Get(heap, last.root, last.key, T)

(* C3: t.Put(k, v) returns for every key other than k, the prefixes and the  *)
(* extensions of k and the empty key included, what t returns.               *)
C3_PutOnlyItsKey ==
    last.op = "Put" => SameGets(heap, last.res, heap, last.root, Keys \ {last.key})

(* the receiver holds a proper prefix and an extension of the key put *)
C3_Witness ==
    /\ last.op = "Put" /\ Len(last.key) = 1
    /\ Holds(heap, last.root, <<>>)
    /\ \E k2 \in Keys : Len(k2) = 2 /\ IsPrefix(last.key, k2) /\ Holds(heap, last.res, k2)
    /\ Holds(heap, last.res, <<>>)

(* C4: t.Remove(k).Get(k) is absent for every type, and every other key,     *)
(* the extensions and the prefixes of k included, returns what t returns.    *)
C4_RemoveExact ==
    last.op = "Remove" =>
        /\ \A T \in Types : Get(heap, last.res, last.key, T) = Null
        /\ SameGets(heap, last.res, heap, last.root, Keys \ {last.key})

(* the key removed held a value and was the only child of a prefix that      *)
(* holds one                                                                 *)
C4_Witness ==
    /\ last.op = "Remove" /\ Len(last.key) = 2
    /\ Holds(heap, last.root, last.key)
    /\ Holds(heap, last.root, <<last.key[1]>>)
    /\ Cardinality(DOMAIN heap[NodeAt(heap, last.root, <<last.key[1]>>)].children_) = 1
    /\ Holds(heap, last.res, <<last.key[1]>>)
    /\ ~Holds(heap, last.res, last.key)

(* Put followed by Remove of the same key, as the last two calls *)
PutThenRemove ==
    /\ last.op = "Remove" /\ last.prev.op = "Put"
    /\ last.root = last.prev.res /\ last.key = last.prev.key

(* C5 as stated: t.Put(k, v).Remove(k) returns for every key what t returned *)
(* before the Put.                                                           *)
C5_RoundTrip_AsStated ==
    PutThenRemove => SameGets(heap, last.res, heap, last.prev.root, Keys)

(* C5 as amended: t.Put(k, v).Remove(k) returns for every key other than k   *)
(* what t returned before the Put, and absent for k; so it returns for every *)
(* key what t returned exactly when t held no value at k.  Checked on the    *)
(* last two calls, and on the Remove that would follow any Put just made.    *)
RoundTrip(h, t, k, r) ==
    /\ SameGets(r.h, r.root, h, t, Keys \ {k})
    /\ \A T \in Types : Get(r.h, r.root, k, T) = Null
    /\ SameGets(r.h, r.root, h, t, Keys) <=> ~Holds(h, t, k)

C5_RoundTrip ==
    /\ PutThenRemove =>
          RoundTrip(heap, last.prev.root, last.key, [h |-> heap, root |-> last.res])
    /\ last.op = "Put" =>
          RoundTrip(heap, last.root, last.key, Remove(heap, last.res, last.key))

(* a key put below a stored key and removed again: the Remove prunes the     *)
(* node the Put added, in a Trie that held no value at the key               *)
C5_Witness ==
    /\ PutThenRemove /\ Len(last.key) = 2
    /\ last.prev.root # Null /\ ~Holds(heap, last.prev.root, last.key)
    /\ Holds(heap, last.prev.root, <<last.key[1]>>)
    /\ last.res # last.prev.root
    /\ SameGets(heap, last.res, heap, last.prev.root, Keys)

(* C6: Remove on the empty Trie, or of a key whose path is not all there, or *)
(* whose node holds no value, returns the receiver's own root (absent for    *)
(* the empty Trie) and allocates no node.                                    *)
NothingToRemove(h, root, k) ==
    \/ root = Null
    \/ NodeAt(h, root, k) = Null
    \/ ~h[NodeAt(h, root, k)].is_value_node_

C6_RemoveNoOp ==
    last.op = "Remove" /\ NothingToRemove(heap, last.root, last.key) =>
        last.res = last.root /\ DOMAIN heap = last.pre

(* a Remove whose walk stopped at a missing child below the root of a Trie   *)
(* that holds values                                                         *)
C6_Witness ==
    /\ last.op = "Remove" /\ last.root # Null /\ Len(last.key) = 2
    /\ NodeAt(heap, last.root, <<last.key[1]>>) # Null
    /\ NodeAt(heap, last.root, last.key) = Null
    /\ last.res = last.root /\ DOMAIN heap = last.pre

(* C7: where the node of key k holds a value of type T, Get<T>(k) returns    *)
(* the value and Get<U>(k) returns absent for every other type U.            *)
C7_TypeMismatchAbsent ==
    \A t \in versions, k \in Keys :
        Holds(heap, t, k) =>
            LET node == heap[NodeAt(heap, t, k)]
            IN  \A U \in Types :
                    Get(heap, t, k, U) = IF U = node.type THEN node.value_ ELSE Null

(* a Put replaced a u32 by a str at a key: the old version answers Get<u32>, *)
(* the new one only Get<str>                                                 *)
C7_Witness ==
    /\ last.op = "Put" /\ last.v.type = "str" /\ Len(last.key) > 0
    /\ Get(heap, last.root, last.key, "u32") # Null
    /\ Get(heap, last.res, last.key, "u32") = Null
    /\ Get(heap, last.res, last.key, "str") = last.v.val

(* C8: after t2 = t.Put(k, v) or t2 = t.Remove(k), a node of t2 at a         *)
(* position that is no prefix of k is the node t has at that position, and   *)
(* the nodes of t2 that are not nodes of t are at most length(k) + 1.        *)
C8_StructuralSharing ==
    last.op \in {"Put", "Remove"} =>
        /\ \A p \in Paths :
              ~IsPrefix(p, last.key) /\ NodeAt(heap, last.res, p) # Null =>
                  NodeAt(heap, last.res, p) = NodeAt(heap, last.root, p)
        /\ Cardinality(Reach(heap, last.res) \ Reach(heap, last.root))
              <= Len(last.key) + 1

(* a call on a key of length 2 in a Trie with nodes off the key's path at    *)
(* depth 1 and depth 2, all of them shared by the new version                *)
C8_Witness ==
    /\ last.op \in {"Put", "Remove"} /\ Len(last.key) = 2 /\ last.res # last.root
    /\ \E p \in Paths : Len(p) = 2 /\ p[1] # last.key[1]
                          /\ NodeAt(heap, last.res, p) # Null
    /\ Cardinality(Reach(heap, last.res) \ Reach(heap, last.root)) = Len(last.key) + 1

(* C9: while threads run Get, Put and Remove on the shared ancestor, their    *)
(* node reads and writes interleaved in any order, no step changes a node of *)
(* the ancestor or of a Trie another thread has returned, and every call     *)
(* returns what it returns when run alone on the ancestor: Get the same      *)
(* value, Put and Remove the same Trie, node for node.                       *)
Returned == {t \in Threads : threads[t].pc = "done" /\ threads[t].op \in {"Put", "Remove"}}

Protected ==
    Reach(heap, ancestor) \cup UNION {Reach(heap, threads[t].result) : t \in Returned}

(* the call of frame f, run alone on the nodes the builder left *)
Alone(h, f) ==
    Run([h |-> [n \in {m \in DOMAIN h : m <= ArenaSize} |-> h[n]],
         f |-> Frame(f.op, f.root_, f.key, f.v, f.arena)])

ReturnsAsAlone(h, f) ==
    LET a == Alone(h, f)
    IN  /\ f.result = a.f.result
        /\ f.op \in {"Put", "Remove"} =>
              \A n \in Reach(a.h, a.f.result) : n \in DOMAIN h /\ h[n] = a.h[n]

C9_SnapshotSafety ==
    [][forked =>
         /\ \A n \in Protected : heap'[n] = heap[n]
         /\ \A t \in Threads :
               threads'[t].pc = "done" => ReturnsAsAlone(heap', threads'[t])]_vars

(* thread 1 has returned a new Trie from Put while thread 2 is in the middle *)
(* of a Remove that rebuilds the same path of the ancestor                   *)
C9_Witness ==
    /\ forked /\ ancestor # Null
    /\ threads[1].op = "Put" /\ threads[1].pc = "done"
    /\ threads[1].result # ancestor
    /\ threads[2].op = "Remove" /\ threads[2].pc = "rm_fold_link"
    /\ Len(threads[2].key) = 2 /\ threads[2].i = 0
    /\ threads[1].key = threads[2].key
    /\ ReturnsAsAlone(heap, threads[1])

(* C10: no node of a Trie returned by Put or Remove has no children and no   *)
(* value; Remove drops a dead node from its parent at every level.           *)
Dead(node) == DOMAIN node.children_ = {} /\ ~node.is_value_node_

C10_NoDeadLeaves ==
    \A t \in versions : \A n \in Reach(heap, t) : ~Dead(heap[n])

(* a Remove of a key of length 2 that pruned two levels below a root that    *)
(* stays                                                                     *)
C10_Witness ==
    /\ last.op = "Remove" /\ Len(last.key) = 2
    /\ Holds(heap, last.root, last.key)
    /\ last.res # Null
    /\ NodeAt(heap, last.res, <<last.key[1]>>) = Null

(* C11: in every Trie returned by Put or Remove the root is absent exactly   *)
(* when no key holds a value; removing the last key, the empty key on a      *)
(* childless root included, gives the absent root and no dead root node.     *)
C11_CanonicalEmpty ==
    \A t \in versions :
        /\ t = Null <=> ~\E k \in Keys, T \in Types : Get(heap, t, k, T) # Null
        /\ t # Null => ~Dead(heap[t])

(* the last key of a Trie was removed: the empty key, stored on a childless *)
(* root                                                                      *)
C11_Witness ==
    /\ last.op = "Remove" /\ last.root # Null /\ last.res = Null
    /\ last.key = <<>> /\ Holds(heap, last.root, last.key)
    /\ DOMAIN heap[last.root].children_ = {}

(* C12: a node of a Trie that Put or Remove has returned is never changed:   *)
(* a step that changes a node is a step of a Put or Remove call, on a node   *)
(* that this call allocated and that no returned Trie reaches.               *)
Published == UNION {Reach(heap, t) : t \in versions}

AllocatedBy(t) == {n \in DOMAIN heap : Arena(t) < n /\ n <= Arena(t) + ArenaSize}

C12_NoRewriteInPlace ==
    [][\A n \in DOMAIN heap :
          heap'[n] # heap[n] =>
              /\ n \notin Published
              /\ \E t \in Threads :
                    /\ threads'[t] # threads[t]
                    /\ threads[t].op \in {"Put", "Remove"}
                    /\ n \in AllocatedBy(t)]_vars

(* thread 1 has linked both copies of a Put along an existing path of the    *)
(* ancestor, after thread 2 returned a Trie from a Remove on that path       *)
C12_Witness ==
    /\ forked /\ ancestor # Null
    /\ threads[1].op = "Put" /\ threads[1].pc = "put_exist" /\ threads[1].i = 2
    /\ threads[2].op = "Remove" /\ threads[2].pc = "done"
    /\ threads[2].result \notin {ancestor, Null}
    /\ threads[2].key = threads[1].key
    /\ heap[threads[1].new_root].children_ # heap[ancestor].children_

(* C13: Put on a key whose node exists puts a new value node in its place:   *)
(* the new version returns the new value for the value's type and absent for *)
(* every other type, whatever the node held; the new node is not the old one *)
(* and has the old node's children map, so every key that extends the key    *)
(* returns what it returned before.                                          *)
Extensions(k) == {k2 \in Keys : k2 # k /\ IsPrefix(k, k2)}

C13_PutReplacesNode ==
    last.op = "Put" /\ NodeAt(heap, last.root, last.key) # Null =>
        LET old == NodeAt(heap, last.root, last.key)
            new == NodeAt(heap, last.res, last.key)
        IN  /\ new \notin {Null, old}
            /\ heap[new] = TrieNodeWithValue(heap[old].children_, last.v)
            /\ \A T \in Types :
                  Get(heap, last.res, last.key, T)
                      = IF T = last.v.type THEN last.v.val ELSE Null
            /\ SameGets(heap, last.res, heap, last.root, Extensions(last.key))

(* a str put over a u32 at a key of length 1 whose node has a child that     *)
(* holds a value                                                             *)
C13_Witness ==
    /\ last.op = "Put" /\ Len(last.key) = 1 /\ last.v.type = "str"
    /\ Get(heap, last.root, last.key, "u32") # Null
    /\ Get(heap, last.res, last.key, "u32") = Null
    /\ \E k2 \in Extensions(last.key) : Holds(heap, last.res, k2)

(* C14: the child relation of the nodes is acyclic, and in every Trie each   *)
(* node is reached from the root by one byte path only; no node lies deeper  *)
(* than the longest key.                                                     *)
C14_TreeShape ==
    /\ \A n \in DOMAIN heap : \A p \in Paths \ {<<>>} : Below(heap, n, p) # n
    /\ \A t \in versions : \A p \in Paths :
          /\ Len(p) > MaxKeyLen => NodeAt(heap, t, p) = Null
          /\ NodeAt(heap, t, p) # Null =>
                \A q \in Paths : NodeAt(heap, t, q) = NodeAt(heap, t, p) => q = p

(* three versions share nodes: a Trie with nodes at depth 2 on two branches, *)
(* one of them shared with the Trie it was made from                         *)
C14_Witness ==
    /\ nops = MaxOps /\ last.root # Null /\ last.res \notin {Null, last.root}
    /\ \E p, q \in Paths :
          /\ Len(p) = 2 /\ Len(q) = 2 /\ p[1] # q[1]
          /\ NodeAt(heap, last.res, p) # Null
          /\ NodeAt(heap, last.res, q) # Null
          /\ NodeAt(heap, last.res, q) = NodeAt(heap, last.root, q)
    /\ Reach(heap, last.res) \cap Reach(heap, last.root) # {}

(* C15: with a reference map run side by side from the empty Trie (Put sets  *)
(* the key's entry, Remove deletes it), Get<T>(k) on a Trie returns v        *)
(* exactly when the map holds k with type T and value v, and absent          *)
(* otherwise, for every key, prefixes and extensions of stored keys          *)
(* included.                                                                 *)
C15_MapRefinement ==
    \A t \in DOMAIN contents : \A k \in Keys, T \in Types :
        Get(heap, t, k, T) = IF contents[t][k].type = T THEN contents[t][k].val ELSE Null

(* a Remove deleted from the map a key of length 1 that is a prefix of a    *)
(* key the map holds with a str: the key's node stays, without its value     *)
C15_Witness ==
    /\ last.op = "Remove" /\ Len(last.key) = 1
    /\ last.root \in DOMAIN contents /\ last.res \in DOMAIN contents
    /\ contents[last.root][last.key] # NoValue
    /\ contents[last.res][last.key] = NoValue
    /\ NodeAt(heap, last.res, last.key) # Null
    /\ \E k2 \in Extensions(last.key) :
          /\ contents[last.res][k2].type = "str"
          /\ Get(heap, last.res, k2, "str") = contents[last.res][k2].val

(* C16: in every Trie returned by Put or Remove the byte paths that lead to  *)
(* a node are exactly the prefixes (the empty one and the key itself         *)
(* included) of the keys that hold a value, and a node is a value node       *)
(* exactly when its path is such a key; so Tries with the same contents have *)
(* nodes at the same paths, whatever calls made them.                        *)
Stored(t) == {k \in Keys : contents[t][k] # NoValue}

NodePaths(t) == {p \in Paths : NodeAt(heap, t, p) # Null}

C16_CanonicalShape ==
    /\ \A t \in DOMAIN contents :
          /\ NodePaths(t) = {p \in Paths : \E k \in Stored(t) : IsPrefix(p, k)}
          /\ \A p \in NodePaths(t) :
                heap[NodeAt(heap, t, p)].is_value_node_ <=> p \in Stored(t)
    /\ \A t1, t2 \in DOMAIN contents :
          contents[t1] = contents[t2] => NodePaths(t1) = NodePaths(t2)

(* a Remove pruned a Trie back to the contents of an older Trie with another *)
(* root: two histories, one shape                                            *)
C16_Witness ==
    /\ last.op = "Remove" /\ Len(last.key) = 2 /\ last.res \notin {Null, last.root}
    /\ \E t \in DOMAIN contents \ {Null, last.res} :
          /\ contents[t] = contents[last.res]
          /\ NodePaths(t) = NodePaths(last.res)
          /\ Cardinality(NodePaths(t)) = 2

(* C17: Puts on two different keys commute: t.Put(k1, v1).Put(k2, v2) and    *)
(* t.Put(k2, v2).Put(k1, v1) return the same for every key and type, also    *)
(* when one key is a prefix of the other or the empty key.  Checked on the   *)
(* last two calls, for all their values, and on the Put of SecondValue at    *)
(* any other key that would follow any Put just made.                        *)
SecondValue == [type |-> "str", val |-> 1]

TwoPuts ==
    /\ last.op = "Put" /\ last.prev.op = "Put"
    /\ last.root = last.prev.res /\ last.key # last.prev.key

(* t.Put(k2, v2).Put(k1, v1) *)
OtherOrder(h, t, k1, v1, k2, v2) ==
    LET a == Put(h, t, k2, v2) IN Put(a.h, a.root, k1, v1)

C17_PutsCommute ==
    /\ TwoPuts =>
          LET o == OtherOrder(heap, last.prev.root, last.prev.key, last.prev.v,
                              last.key, last.v)
          IN  SameGets(heap, last.res, o.h, o.root, Keys)
    /\ last.op = "Put" =>
          \A k2 \in Keys \ {last.key} :
              LET n == Put(heap, last.res, k2, SecondValue)
                  o == OtherOrder(heap, last.root, last.key, last.v, k2, SecondValue)
              IN  SameGets(n.h, n.root, o.h, o.root, Keys)

(* a key was put and then a proper prefix of it, with a value of another     *)
(* type, on a Trie that already held a third key                             *)
C17_Witness ==
    /\ TwoPuts /\ last.prev.root # Null
    /\ Len(last.prev.key) = 2 /\ Len(last.key) = 1 /\ IsPrefix(last.key, last.prev.key)
    /\ last.v.type # last.prev.v.type
    /\ ~Holds(heap, last.prev.root, last.key)
    /\ Get(heap, last.res, last.prev.key, last.prev.v.type) = last.prev.v.val
    /\ Get(heap, last.res, last.key, last.v.type) = last.v.val

(* C18: t.Remove(k).Remove(k) has the root of t.Remove(k), absent when that  *)
(* is empty: after the first Remove the path of k is not all there or ends   *)
(* in a node without a value.  Checked on the last two calls, and on the     *)
(* Remove that would follow any Remove just made.                            *)
TwoRemoves ==
    /\ last.op = "Remove" /\ last.prev.op = "Remove"
    /\ last.root = last.prev.res /\ last.key = last.prev.key

C18_RemoveIdempotent ==
    /\ TwoRemoves => last.res = last.root
    /\ last.op = "Remove" =>
          /\ NothingToRemove(heap, last.res, last.key)
          /\ Remove(heap, last.res, last.key).root = last.res

(* a key of length 2 was removed from a Trie that held it, and removed again *)
C18_Witness ==
    /\ TwoRemoves /\ Len(last.key) = 2
    /\ Holds(heap, last.prev.root, last.key)
    /\ last.prev.res # last.prev.root
    /\ last.res = last.root

====
